---- MODULE Spec2Model ----
(***************************************************************************)
(* A model of the U-Home client.  First the OAuth2 authorization-code      *)
(* lifecycle (authenticator.py): the AuthenticationHandler, the local      *)
(* AuthCallback listener it starts, the bounded poll for the redirect and  *)
(* the token exchange.  Then the API client's dispatch (api.py in its      *)
(* three drafts) and the device factory with the device classes            *)
(* (device_manager.py, devices/).  Time is the wall clock in seconds;      *)
(* optional values are the empty tuple (None) or a one-element tuple.      *)
(***************************************************************************)
EXTENDS Integers, Sequences, FiniteSets, TLC

VARIABLES
    access_token,    \* AuthenticationHandler.access_token ("None" or a token)
    token_expiry,    \* AuthenticationHandler.token_expiry (<<>> or <<instant>>)
    cb,              \* AuthenticationHandler._auth_callback (<<>> or <<AuthCallback>>)
    now,             \* datetime.now(), in seconds
    pc,              \* where the running call is suspended
    i,               \* iterations of the poll loop already completed
    state,           \* the state generated for the running attempt
    runner,          \* the attempt's web.AppRunner: "none", "setup", "cleaned"
    port,            \* localhost:8080 as held by this process: "free", "bound"
    pending,         \* the return value or exception travelling through finally
    result,          \* how the last call ended
    tokenBefore,     \* history: the token state when the running call began
    redirected,      \* history: the listener handled a request in this attempt
    seen,            \* history: the callback as read by the poll that ended the wait
    urlOpened,       \* history: webbrowser.open was called in this attempt
    exchangeStarted, \* history: the token request of this attempt was issued
    lastResp,        \* history: the token endpoint's answer and when it came
    valid,           \* what the last validate_token() call returned (<<>> before any)
    callPc,          \* where the running dispatch is suspended
    impl,            \* the draft of the API client whose dispatch is running
    apiTrace,        \* history: what the running dispatch did, in order
    apiResp,         \* the action endpoint's answer to the dispatch (<<>> before it)
    apiResult,       \* how the last dispatch ended
    mapping,         \* DeviceFacilitator._handle_type_mapping
    registry,        \* device_manager.HANDLE_TYPE_CAPABILITIES
    devices,         \* the devices create_device has returned so far
    last,            \* the last device operation: its input and how it ended
    sent,            \* the commands the last device operation dispatched
    lastReq,         \* history: the last request the listener handled (<<>> if none)
    session,         \* the client's transport: "open", "closed"
    closeResult,     \* how the last close() ended
    messageIds,      \* the request envelopes built so far, in order
    request,         \* the last command call of the client and its parameters
    other,           \* where a second authenticate() on the same handler is
    own              \* the AuthCallback the bound listener serves, once the
                     \* handler references another one (<<>> while it is cb)

vars == <<access_token, token_expiry, cb, now, pc, i, state, runner, port,
          pending, result, tokenBefore, redirected, seen, urlOpened,
          exchangeStarted, lastResp, valid, callPc, impl, apiTrace, apiResp,
          apiResult, mapping, registry, devices, last, sent, lastReq,
          session, closeResult, messageIds, request, other, own>>

tokenVars == <<access_token, token_expiry>>
attemptVars == <<cb, pc, i, state, runner, port, pending>>
historyVars == <<tokenBefore, redirected, seen, urlOpened, exchangeStarted,
                 lastResp>>
apiVars == <<callPc, impl, apiTrace, apiResp, apiResult>>
deviceVars == <<mapping, registry, devices, last, sent>>
clientVars == <<session, closeResult, messageIds, request>>
overlapVars == <<other, own>>

----------------------------------------------------------------------------
\* Bounds of the model.
MaxTicks == 1
MaxSkew == 3

\* Program constants.
PollLimit == 60
MarginMinutes == 5
DefaultExpiresIn == 7200
HttpOk == 200

None == "None"
Absent == <<>>
Some(v) == <<v>>
Val(o) == o[1]

Margin == MarginMinutes * 60
MaxNow == MaxTicks * Margin

Tokens == {"t1", "t2"}
AuthCodes == {None, "", "c1"}
Bodies == {"Bad request", "boom"}
Statuses == {HttpOk, 204, 400, 500}

\* expires_in of a token response: missing, a number of seconds, or a JSON
\* value that is no number (a string, null).
ExpiresIns ==
    {[kind |-> "absent", val |-> 0], [kind |-> "other", val |-> 0]}
    \cup {[kind |-> "number", val |-> v] : v \in {2 * Margin}}

Responses ==
    {[status |-> HttpOk, body |-> "json", access_token |-> t, expires_in |-> e] :
        t \in Tokens \cup {None}, e \in ExpiresIns}
    \cup {[status |-> s, body |-> b, access_token |-> None,
           expires_in |-> [kind |-> "absent", val |-> 0]] :
        s \in Statuses \ {HttpOk}, b \in Bodies}

\* _get_authorization_code (authenticator.py:35-42): the query parameters of
\* the authorization URL, for the state generated.
auth_params(st) ==
    [response_type |-> "code", client_id |-> "client_id",
     client_secret |-> "client_secret", scope |-> "all",
     redirect_uri |-> "redirect_uri", state |-> st]

\* The query of a GET / the listener receives.
Requests(st) ==
    [code : {None, "c1"}, authorization_code : AuthCodes,
     state : {Absent, Some(st), Some(st + 1)}]

NoOutcome == [op |-> "none", kind |-> "none", msg |-> <<>>, value |-> None]
Returned(op, v) == [op |-> op, kind |-> "return", msg |-> <<>>, value |-> v]
Raised(op, kind, msg) == [op |-> op, kind |-> kind, msg |-> msg, value |-> None]

TokenState == [access_token |-> access_token, token_expiry |-> token_expiry]

----------------------------------------------------------------------------
\* Pure parts of the code.

Truthy(c) == c \notin {None, ""}

validate_token_le ==
    /\ access_token # None
    /\ token_expiry # Absent
    /\ now <= Val(token_expiry) - Margin

validate_token ==
    /\ access_token # None
    /\ token_expiry # Absent
    /\ now < Val(token_expiry) - Margin

StateMismatchNever(cbState, st) == FALSE

StateMismatch(cbState, st) == cbState # Some(st)

LoopContinuesOneMore(n) == n < PollLimit + 1

LoopContinues(n) == n < PollLimit

TimeoutReturnsNone == Returned("authenticate", None)

TimeoutOutcome == Raised("authenticate", "AuthenticationError", <<"Authorization timeout">>)

IsSuccessAny2xx(status) == status < 300

IsSuccess(status) == status = HttpOk

ExpiryFromMargin(t, seconds) == t + seconds - Margin

ExpiryFrom(t, seconds) == t + seconds

----------------------------------------------------------------------------
\* The API client's dispatch: the answer of the action endpoint and how each
\* draft of the client classifies it.

ApiStatuses == Statuses \cup {201, 202, 301, 401, 404}
JsonBodies == {"{}", "{\"payload\":{}}"}
ApiBodies == JsonBodies \cup Bodies

\* response.json(): the decoded object, as the set of its keys; a body that
\* is no JSON text does not decode.
Decode(body) ==
    CASE body = "{}" -> Some({})
      [] body = "{\"payload\":{}}" -> Some({"payload"})
      [] OTHER -> Absent

ApiNoOutcome ==
    [kind |-> "none", payload |-> Absent, status_code |-> 0, message |-> ""]
ApiReturned(p) ==
    [kind |-> "return", payload |-> Some(p), status_code |-> 0, message |-> ""]
ApiRaisedError(kind, text) ==
    [kind |-> kind, payload |-> Absent, status_code |-> 0, message |-> text]

\* exceptions.ApiError(status_code, message): both arguments are kept.
ApiError(status_code, message) ==
    [kind |-> "ApiError", payload |-> Absent, status_code |-> status_code,
     message |-> message]

\* return await response.json()
JsonOutcome(body) ==
    IF Decode(body) # Absent
    THEN ApiReturned(Val(Decode(body)))
    ELSE ApiRaisedError("JSONDecodeError", body)

\* src/api.py, UHomeApi._api_call: what the `async with` block does with the
\* response.
api_call(status, body) ==
    IF status \in {200, 201, 202}
    THEN JsonOutcome(body)
    ELSE ApiError(status, body)

async_make_request_no204(status, body) ==
    IF status \in {200, 201, 202}
    THEN JsonOutcome(body)
    ELSE ApiError(status, body)

\* src/utec_py/api.py, UHomeApi._async_make_request.
async_make_request(status, body) ==
    IF status = 204
    THEN ApiReturned({})
    ELSE IF status \in {200, 201, 202}
         THEN JsonOutcome(body)
         ELSE ApiError(status, body)

\* src/utec_py_LF2b2w/api.py, UHomeApi._make_request: async_make_auth_request
\* is a coroutine function, so `async with` is handed a coroutine object and
\* raises TypeError before the response is looked at.
make_request(status, body) ==
    ApiRaisedError("TypeError",
        "'coroutine' object does not support the asynchronous context manager protocol")

Impls == {"_api_call", "_async_make_request", "_make_request"}

Classify(draft, status, body) ==
    CASE draft = "_api_call" -> api_call(status, body)
      [] draft = "_async_make_request" -> async_make_request(status, body)
      [] OTHER -> make_request(status, body)

ApiNeedsAuthAlways == TRUE

\* `if not self.authenticator.validate_token():`
ApiNeedsAuth == ~validate_token

\* No dispatch has been made.
ApiIdle ==
    /\ callPc = "idle"
    /\ impl = "_api_call"
    /\ apiTrace = <<>>
    /\ apiResp = Absent
    /\ apiResult = ApiNoOutcome

----------------------------------------------------------------------------
\* The device factory and the device classes.

MaxDevices == 1

BrightnessMin == 0
BrightnessMax == 100
ColorTempMin == 2000
ColorTempMax == 9000

BuiltinTypes ==
    {"utec-lock", "utec-lock-sensor", "utec-dimmer", "utec-light-rgbaw-br",
     "utec-switch"}
NewType == "vendor-new-type"
AllTypes == BuiltinTypes \cup {NewType}

\* devices/device_types.py, HANDLE_TYPE_CAPABILITIES: what BaseDevice reads.
TypeCapabilities(t) ==
    CASE t = "utec-lock" -> {"Lock", "BatteryLevel", "LockUser"}
      [] t = "utec-lock-sensor" -> {"Lock", "BatteryLevel", "DoorSensor"}
      [] t = "utec-dimmer" -> {"Switch", "Switch Level"}
      [] t = "utec-light-rgbaw-br" ->
            {"Switch", "Brightness", "Color", "ColorTemperature"}
      [] t = "utec-switch" -> {"Switch"}

\* device_manager.py, HANDLE_TYPE_CAPABILITIES as the module is loaded: what
\* the factory reads and register_device_class writes.
RegistryInitial ==
    [t \in AllTypes |->
        CASE t = "utec-lock" -> Some({"Lock", "BatteryLevel", "LockUser"})
          [] t = "utec-lock-sensor" -> Some({"Lock", "BatteryLevel", "DoorSensor"})
          [] t = "utec-dimmer" -> Some({"Switch", "Switch Level"})
          [] t = "utec-light-rgbaw-br" ->
                Some({"Switch", "Brightness", "Color", "ColorTemperature"})
          [] t = "utec-switch" -> Some({"Switch"})
          [] OTHER -> Absent]

\* DeviceFacilitator._handle_type_mapping as the class is created.
MappingInitial ==
    [t \in AllTypes |->
        CASE t \in {"utec-lock", "utec-lock-sensor"} -> "Lock"
          [] t \in {"utec-dimmer", "utec-light-rgbaw-br"} -> "Light"
          [] t = "utec-switch" -> "Switch"
          [] OTHER -> None]

\* const.ATTR_HANDLE_TYPE and const.ATTR_DEVICE_ID, the record keys the
\* factory reads: the keys BaseDevice.__init__ reads.
AttrHandleType == "handleType"
AttrDeviceId == "id"

\* HANDLE_TYPE_CAPABILITIES.get(handle_type, set())
RequiredOf(reg, t) == IF reg[t] = Absent THEN {} ELSE Val(reg[t])

\* The capabilities a discovery record declares: a JSON array decodes to a
\* list, a caller may also hand over a set.
DeclaredSets ==
    {{"Lock", "BatteryLevel"},
     {"Lock", "BatteryLevel", "LockUser", "DoorSensor"},
     {"Switch"},
     {"Switch", "Brightness", "Color", "ColorTemperature"}}
Declared ==
    {Absent} \cup {Some([repr |-> r, elems |-> S]) :
                      r \in {"set", "list"}, S \in DeclaredSets}

RecordTypes ==
    {Absent, Some(""), Some("utec-lock"), Some("utec-light-rgbaw-br"),
     Some("utec-switch"), Some(NewType)}

\* Discovery records, by the keys the factory and the classes read; every
\* record carries an id and a name.
Record(d, t, c, g) ==
    [id |-> d, handleType |-> t, supportedCapabilities |-> c, category |-> g,
     supported_capabilities |-> Absent]
Records ==
    {Record(d, t, c, Absent) :
        d \in {"d1", "d2"}, t \in RecordTypes, c \in Declared}
    \cup {Record(d, Some("utec-switch"), c, Some("switch")) :
        d \in {"d1", "d2"}, c \in Declared}

\* What __init__ sets (device.py:33-38) and the properties of each class.
InstanceAttributes ==
    {"_discovery_data", "_api", "_id", "_name", "_handle_type",
     "_supported_capabilities"}
ClassProperties(cls) ==
    {"id", "supported_capabilities"} \cup
    CASE cls = "Lock" ->
            {"has_door_sensor", "door_state", "category", "lock_state",
             "battery_level", "is_locked"}
      [] cls = "Switch" -> {"category", "power_state", "is_on"}
      [] cls = "Light" ->
            {"is_on", "brightness", "color_temp", "rgb_color",
             "supported_features"}
      [] OTHER -> {}
HasAttr(cls, name) == name \in InstanceAttributes \cup ClassProperties(cls)

\* How a device operation ended: the exception's class and text, the id and
\* the missing capabilities its text names, the device it returned.
DevNoOutcome ==
    [kind |-> "none", cause |-> "none", text |-> <<>>, id |-> Absent,
     missing |-> Absent, device |-> Absent]
DevReturned(dev) ==
    [kind |-> "return", cause |-> "none", text |-> <<>>, id |-> Absent,
     missing |-> Absent, device |-> dev]
DevRaised(kind, text, id, missing) ==
    [kind |-> kind, cause |-> "none", text |-> text, id |-> id,
     missing |-> missing, device |-> Absent]

\* device_manager.py:122-125: every exception raised inside the try, a
\* DeviceError included, is replaced by a DeviceError quoting its text.
Wrapped(e) ==
    [kind |-> "DeviceError", cause |-> e.kind,
     text |-> <<"Failed to create device from discovery data: ">> \o e.text,
     id |-> e.id, missing |-> e.missing, device |-> Absent]

\* BaseDevice.__init__ with _validate_capabilities (device.py:32-61).
BaseDeviceInit(cls, data) ==
    LET t == Val(data.handleType) IN
    IF t \notin BuiltinTypes
    THEN DevRaised("ValueError", <<"'", t, "' is not a valid HandleType">>,
                   Absent, Absent)
    ELSE IF data.supportedCapabilities = Absent
    THEN DevRaised("KeyError", <<"'supportedCapabilities'">>, Absent, Absent)
    ELSE LET declared == Val(data.supportedCapabilities)
             required == TypeCapabilities(t)
         IN IF required \subseteq declared.elems
            THEN DevReturned(Some([cls |-> cls, data |-> data,
                                   state_data |-> Absent]))
            ELSE IF declared.repr = "list"
            THEN DevRaised("TypeError",
                    <<"unsupported operand type(s) for -: 'set' and 'list'">>,
                    Absent, Absent)
            ELSE DevRaised("DeviceError",
                    <<"Device ", data.id, " missing required capabilities: ">>,
                    Some(data.id), Some(required \ declared.elems))

\* DeviceFacilitator._validate_device_capabilities (device_manager.py:127-143):
\* the text of its DeviceError reads device.device_id.
validate_device_capabilities(dev, required) ==
    LET missing == required \ Val(dev.data.supportedCapabilities).elems IN
    IF missing = {}
    THEN DevReturned(Some(dev))
    ELSE IF HasAttr(dev.cls, "device_id")
    THEN DevRaised("DeviceError",
            <<"Device ", dev.data.id, " missing required capabilities: ">>,
            Some(dev.data.id), Some(missing))
    ELSE DevRaised("AttributeError",
            <<"'", dev.cls, "' object has no attribute 'device_id'">>,
            Absent, Absent)

UnregisteredRaises(data) ==
    [outcome |-> Wrapped(DevRaised("DeviceError",
                    <<"Unsupported handle type: ", Val(data[AttrHandleType])>>,
                    Some(data[AttrDeviceId]), Absent)),
     data |-> data]

\* device_manager.py:104-108: no class for the handle type, log and return
\* None.
Unregistered(data) == [outcome |-> DevReturned(Absent), data |-> data]

MissingHandleTypeSkipped(data) == [outcome |-> DevReturned(Absent), data |-> data]

\* device_manager.py:97-100: `if not handle_type`, raise DeviceError with
\* the record's id in its text; the except clause then wraps it.
MissingHandleType(data) ==
    [outcome |-> Wrapped(DevRaised("DeviceError",
                    <<"Missing handle type in discovery data for device: ",
                      data[AttrDeviceId]>>, Some(data[AttrDeviceId]), Absent)),
     data |-> data]

\* DeviceFacilitator.create_device (device_manager.py:77-125): how the call
\* ends and the record as the call leaves it.
create_device(data, map, reg) ==
    IF data[AttrHandleType] \in {Absent, Some("")}
    THEN MissingHandleType(data)
    ELSE LET t == Val(data[AttrHandleType]) IN
    IF t \notin DOMAIN map \/ map[t] = None
    THEN Unregistered(data)
    ELSE LET capabilities == RequiredOf(reg, t)
             filled == [data EXCEPT !.supported_capabilities = Some(capabilities)]
             built == BaseDeviceInit(map[t], filled)
         IN IF built.kind # "return"
            THEN [outcome |-> Wrapped(built), data |-> filled]
            ELSE LET checked == validate_device_capabilities(Val(built.device),
                                                             capabilities)
                 IN IF checked.kind # "return"
                    THEN [outcome |-> Wrapped(checked), data |-> filled]
                    ELSE [outcome |-> checked, data |-> filled]

\* The category property of a device; Light and BaseDevice define none.
category(dev) ==
    IF ~HasAttr(dev.cls, "category")
    THEN Absent
    ELSE IF dev.cls = "Lock"
    THEN Some("LOCK")
    ELSE IF dev.data.category = Some("switch") THEN Some("SWITCH") ELSE Some("PLUG")

\* What the client returns to a device: None, an object without the key
\* payload, or one whose payload lists device entries.
DeviceResponses ==
    {Absent, Some([payload |-> Absent]),
     Some([payload |-> Some(<<"state-1">>)])}

\* `if response and "payload" in response:
\*      self._state_data = response["payload"]["devices"][0]`
\* (device.py:71-72 and 77-78).
StateFrom(dev, response) ==
    IF response = Absent \/ Val(response).payload = Absent
    THEN [outcome |-> DevReturned(Absent), state_data |-> dev.state_data]
    ELSE IF Val(Val(response).payload) = <<>>
    THEN [outcome |-> DevRaised("IndexError", <<"list index out of range">>,
                                Absent, Absent),
          state_data |-> dev.state_data]
    ELSE [outcome |-> DevReturned(Absent),
          state_data |-> Some(Val(Val(response).payload)[1])]

\* A call that raised before any request: nothing sent, the state as it was.
NotSent(dev, outcome) ==
    [outcome |-> outcome, sent |-> <<>>, state_data |-> dev.state_data]

\* BaseDevice.send_command (device.py:63-72) reads self.api; with it the
\* command is dispatched through UHomeApi.send_command and the state is
\* taken from the response.
send_command(dev, command, response) ==
    IF ~HasAttr(dev.cls, "api")
    THEN NotSent(dev, DevRaised("AttributeError",
                        <<"'", dev.cls, "' object has no attribute 'api'">>,
                        Absent, Absent))
    ELSE [outcome |-> StateFrom(dev, response).outcome,
          sent |-> <<[operation |-> "Command", id |-> dev.data.id,
                      command |-> command]>>,
          state_data |-> StateFrom(dev, response).state_data]

\* Light.set_brightness (light.py:103-114).
set_brightness(dev, brightness, response) ==
    IF ~(BrightnessMin <= brightness /\ brightness <= BrightnessMax)
    THEN NotSent(dev, DevRaised("ValueError",
                        <<"Brightness must be between 0 and 100">>,
                        Absent, Absent))
    ELSE send_command(dev, [capability |-> "st.Brightness", name |-> "level",
                            arguments |-> [value |-> brightness]], response)

\* BaseDevice.update (device.py:74-78) reads self.api as well.
update(dev, response) ==
    IF ~HasAttr(dev.cls, "api")
    THEN NotSent(dev, DevRaised("AttributeError",
                        <<"'", dev.cls, "' object has no attribute 'api'">>,
                        Absent, Absent))
    ELSE [outcome |-> StateFrom(dev, response).outcome,
          sent |-> <<[operation |-> "Query", id |-> dev.data.id,
                      command |-> [capability |-> "", name |-> "",
                                   arguments |-> [value |-> 0]]]>>,
          state_data |-> StateFrom(dev, response).state_data]

\* devices/device_const.py, DeviceCapability: the members of the enum the
\* Light commands are built from, each with its value.
DeviceCapability ==
    [SWITCH |-> "st.Switch", LOCK |-> "st.Lock",
     BATTERY_LEVEL |-> "st.BatteryLevel", LOCK_USER |-> "st.LockUser",
     DOOR_SENSOR |-> "st.DoorSensor", BRIGHTNESS |-> "st.Brightness",
     COLOR |-> "st.Color", COLOR_TEMPERATURE |-> "st.ColorTemperature",
     HEALTH_CHECK |-> "st.healthCheck"]

\* Light.set_color_temp (light.py:116-127): the fixed ColorTempRange is
\* checked, then the command names DeviceCapability.COLOR_TEMP.
set_color_temp(dev, temp, response) ==
    IF ~(ColorTempMin <= temp /\ temp <= ColorTempMax)
    THEN NotSent(dev, DevRaised("ValueError",
                        <<"Color temperature must be between 2000K and 9000K">>,
                        Absent, Absent))
    ELSE IF "COLOR_TEMP" \notin DOMAIN DeviceCapability
    THEN NotSent(dev, DevRaised("AttributeError", <<"COLOR_TEMP">>,
                                Absent, Absent))
    ELSE send_command(dev, [capability |-> DeviceCapability["COLOR_TEMP"],
                            name |-> "temperature",
                            arguments |-> [value |-> temp]], response)

\* ColorState (device_const.py:71-93): the three components as given, and
\* to_dict.
ColorState(red, green, blue) == [r |-> red, g |-> green, b |-> blue]

\* Light.set_rgb_color (light.py:129-137).
set_rgb_color(dev, red, green, blue, response) ==
    send_command(dev, [capability |-> DeviceCapability.COLOR, name |-> "color",
                       arguments |-> [value |-> ColorState(red, green, blue)]],
                 response)

\* One step of turn_on after the steps before it: an exception ends the
\* call, otherwise what was sent and the state are carried on.
Then(first, second) ==
    IF first.outcome.kind # "return"
    THEN first
    ELSE [outcome |-> second.outcome, sent |-> first.sent \o second.sent,
          state_data |-> second.state_data]

\* The device as a step of turn_on leaves it.
With(dev, step) == [dev EXCEPT !.state_data = step.state_data]

\* Light.turn_on (light.py:70-89): the switch-on command first, then each
\* attribute given, in the order brightness, color_temp, rgb_color.
turn_on(dev, kwargs, response) ==
    LET on == send_command(dev, [capability |-> DeviceCapability.SWITCH,
                                 name |-> "switch",
                                 arguments |-> [value |-> 1]], response)
        b == IF kwargs.brightness = Absent
             THEN on
             ELSE Then(on, set_brightness(With(dev, on),
                                          Val(kwargs.brightness), response))
        t == IF kwargs.color_temp = Absent
             THEN b
             ELSE Then(b, set_color_temp(With(dev, b),
                                         Val(kwargs.color_temp), response))
    IN IF kwargs.rgb_color = Absent
       THEN t
       ELSE LET c == Val(kwargs.rgb_color)
            IN Then(t, set_rgb_color(With(dev, t), c[1], c[2], c[3], response))

\* What turn_on is called with: no attribute, one, or several.
TurnOnInputs ==
    {[brightness |-> b, color_temp |-> Absent, rgb_color |-> Absent] :
        b \in {Absent, Some(50), Some(150)}}
    \cup {[brightness |-> Some(150), color_temp |-> Some(1999),
           rgb_color |-> Absent],
          [brightness |-> Absent, color_temp |-> Absent,
           rgb_color |-> Some(<<256, 0, 0>>)]}

\* A command a caller hands to send_command itself.
Commands ==
    {[capability |-> DeviceCapability.LOCK, name |-> "lock",
      arguments |-> [value |-> 0]]}

\* ColorTemperatureRange (device_const.py:95-100): the range a light's
\* discovery record declares; no class reads it.
ColorTemperatureRange(data) ==
    IF data.id = "d1"
    THEN [min |-> 2700, max |-> 6500]
    ELSE [min |-> ColorTempMin, max |-> ColorTempMax]

BrightnessInputs == {-1, 0, 50, 100, 101, 150}
ColorTempInputs == {1999, 2000, 2699, 2700, 6500, 6501, 9001}
ColorInputs ==
    {<<0, 0, 0>>, <<255, 255, 255>>, <<256, 0, 0>>, <<0, -1, 0>>, <<0, 0, 300>>}

\* What register_device_class is called with; the call is recorded with its
\* arguments and the two tables as it found them.
RegisterInputs ==
    {[handle_type |-> "utec-switch", device_class |-> "Switch",
      capabilities |-> {"Switch", "Brightness"}],
     [handle_type |-> NewType, device_class |-> "Switch",
      capabilities |-> {"Switch"}]}

NoOperation ==
    [op |-> "none", input |-> Absent, after |-> Absent, value |-> 0,
     response |-> Absent, before |-> Absent, outcome |-> DevNoOutcome]

\* The module and the class as loaded, no device created.
NoDevices ==
    /\ mapping = MappingInitial
    /\ registry = RegistryInitial
    /\ devices = {}
    /\ last = NoOperation
    /\ sent = <<>>

\* The client as constructed: its transport open, no envelope built.
ClientOpen ==
    /\ session = "open"
    /\ closeResult = ApiNoOutcome
    /\ messageIds = <<>>
    /\ request = Absent
    /\ other = "none"
    /\ own = Absent

----------------------------------------------------------------------------
\* The state after AuthenticationHandler.__init__.
HandlerConstructed ==
    /\ access_token = None
    /\ token_expiry = Absent
    /\ cb = Absent
    /\ now = 0
    /\ pc = "idle"
    /\ i = 0
    /\ state = 0
    /\ runner = "none"
    /\ port = "free"
    /\ pending = NoOutcome
    /\ result = NoOutcome
    /\ tokenBefore = [access_token |-> None, token_expiry |-> Absent]
    /\ redirected = FALSE
    /\ seen = Absent
    /\ urlOpened = FALSE
    /\ exchangeStarted = FALSE
    /\ lastResp = Absent
    /\ lastReq = Absent
    /\ valid = Absent

\* The handler, the API client and the device factory as constructed.
Init ==
    /\ HandlerConstructed
    /\ ApiIdle
    /\ NoDevices
    /\ ClientOpen

\* The wall clock advances; the model observes it every Margin seconds.
Tick ==
    /\ now < MaxNow
    /\ now' = now + Margin
    /\ UNCHANGED <<tokenVars, attemptVars, result, historyVars, valid, apiVars, deviceVars,
                   lastReq, clientVars, overlapVars>>

\* authenticate() is called: _get_authorization_code generates the state and
\* _start_auth_server creates the AuthCallback and the AppRunner, up to the
\* first await.
BeginAuthenticate ==
    /\ state' = now
    /\ cb' = Some([auth_code |-> None, state |-> Absent])
    /\ runner' = "none"
    /\ i' = 0
    /\ pc' = "setup"
    /\ pending' = NoOutcome
    /\ result' = NoOutcome
    /\ tokenBefore' = TokenState
    /\ redirected' = FALSE
    /\ seen' = Absent
    /\ urlOpened' = FALSE
    /\ exchangeStarted' = FALSE
    /\ lastResp' = Absent
    /\ lastReq' = Absent
    /\ own' = Absent

\* authenticate() called on its own, outside a dispatch.
Authenticate ==
    /\ pc \in {"idle", "done"}
    /\ BeginAuthenticate
    /\ UNCHANGED <<tokenVars, now, port, valid, apiVars, deviceVars,
                   clientVars, other>>

\* await runner.setup()
RunnerSetup ==
    /\ pc = "setup"
    /\ runner' = "setup"
    /\ pc' = "start"
    /\ UNCHANGED <<tokenVars, cb, now, i, state, port, pending, result,
                   historyVars, valid, apiVars, deviceVars,
                   lastReq, clientVars, overlapVars>>

\* await site.start() binds localhost:8080.
SiteStartOk ==
    /\ pc = "start"
    /\ port = "free"
    /\ port' = "bound"
    /\ pc' = "open"
    /\ UNCHANGED <<tokenVars, cb, now, i, state, runner, pending, result,
                   historyVars, valid, apiVars, deviceVars,
                   lastReq, clientVars, overlapVars>>

SiteStartFailsSwallowed ==
    /\ pc = "start"
    /\ pc' = "open"
    /\ UNCHANGED <<tokenVars, cb, now, i, state, runner, port, pending,
                   result, historyVars, valid, apiVars, deviceVars,
                   lastReq, clientVars, overlapVars>>

\* await site.start() raises (the port is taken, by this process or by
\* another one): the exception leaves _start_auth_server before its try.
SiteStartFails ==
    /\ pc = "start"
    /\ pc' = "done"
    /\ result' = Raised("authenticate", "OSError", <<"address already in use">>)
    /\ UNCHANGED <<tokenVars, cb, now, i, state, runner, port, pending,
                   historyVars, valid, apiVars, deviceVars,
                   lastReq, clientVars, overlapVars>>

\* The task is cancelled while site.start() is suspended, before or after
\* the socket was bound: CancelledError leaves before the try.
SiteStartCancelled ==
    /\ pc = "start"
    /\ \E p \in {port, "bound"} : port' = p
    /\ pc' = "done"
    /\ result' = Raised("authenticate", "CancelledError", <<>>)
    /\ UNCHANGED <<tokenVars, cb, now, i, state, runner, pending,
                   historyVars, valid, apiVars, deviceVars,
                   lastReq, clientVars, overlapVars>>

\* webbrowser.open(auth_url), then the try block is entered.
OpenBrowser ==
    /\ pc = "open"
    /\ urlOpened' = TRUE
    /\ pc' = "poll"
    /\ UNCHANGED <<tokenVars, cb, i, state, runner, port, pending, now, result, tokenBefore,
                   redirected, seen, exchangeStarted, lastResp, valid, apiVars, deviceVars,
                   lastReq, clientVars, overlapVars>>

\* One iteration of `for _ in range(60)`: the callback is read; with a
\* code captured the states are compared and the wait ends (through finally),
\* otherwise the loop goes to sleep.
PollCheck ==
    /\ pc = "poll"
    /\ LoopContinues(i)
    /\ IF Truthy(Val(cb).auth_code)
       THEN /\ pending' = IF StateMismatch(Val(cb).state, state)
                          THEN Raised("authenticate", "AuthenticationError",
                                      <<"State mismatch">>)
                          ELSE Returned("authenticate", Val(cb).auth_code)
            /\ seen' = cb
            /\ pc' = "cleanup"
       ELSE /\ pc' = "sleep"
            /\ UNCHANGED <<pending, seen>>
    /\ UNCHANGED <<tokenVars, cb, now, i, state, runner, port, result,
                   tokenBefore, redirected, urlOpened, exchangeStarted,
                   lastResp, valid, apiVars, deviceVars,
                   lastReq, clientVars, overlapVars>>

\* await asyncio.sleep(1) returns and the loop takes its next iteration.
SleepDone ==
    /\ pc = "sleep"
    /\ i' = i + 1
    /\ pc' = "poll"
    /\ UNCHANGED <<tokenVars, cb, now, state, runner, port, pending, result,
                   historyVars, valid, apiVars, deviceVars,
                   lastReq, clientVars, overlapVars>>

\* range(60) is exhausted: raise AuthenticationError("Authorization timeout").
PollTimeout ==
    /\ pc = "poll"
    /\ ~LoopContinues(i)
    /\ pending' = TimeoutOutcome
    /\ pc' = "cleanup"
    /\ UNCHANGED <<tokenVars, cb, now, i, state, runner, port, result,
                   historyVars, valid, apiVars, deviceVars,
                   lastReq, clientVars, overlapVars>>

\* The task is cancelled while it sleeps: CancelledError enters finally.
CancelSleep ==
    /\ pc = "sleep"
    /\ pending' = Raised("authenticate", "CancelledError", <<>>)
    /\ pc' = "cleanup"
    /\ UNCHANGED <<tokenVars, cb, now, i, state, runner, port, result,
                   historyVars, valid, apiVars, deviceVars,
                   lastReq, clientVars, overlapVars>>

\* AuthCallback._handle_callback: a GET / reaches the listener while the
\* attempt is suspended; both fields are overwritten from the query.
HandleCallback ==
    /\ port = "bound"
    /\ pc \in {"sleep", "cleanup"}
    /\ \E req \in Requests(state) :
          cb' = Some([auth_code |-> req.authorization_code, state |-> req.state])
    /\ redirected' = TRUE
    /\ UNCHANGED <<tokenVars, now, pc, i, state, runner, port, pending,
                   result, tokenBefore, seen, urlOpened, exchangeStarted,
                   lastResp, valid, apiVars, deviceVars,
                   lastReq, clientVars, overlapVars>>

\* The same handler, with the query of the request it served and the point
\* the attempt was at kept for the properties.
ObserveCallback ==
    /\ port = "bound"
    /\ pc \in {"sleep", "cleanup"}
    /\ \E req \in Requests(state) :
          /\ cb' = Some([auth_code |-> req.authorization_code,
                         state |-> req.state])
          /\ lastReq' = Some([query |-> req, during |-> pc])
    /\ redirected' = TRUE
    /\ UNCHANGED <<tokenVars, now, pc, i, state, runner, port, pending,
                   result, tokenBefore, seen, urlOpened, exchangeStarted,
                   lastResp, valid, apiVars, deviceVars, clientVars, overlapVars>>

\* finally: await runner.cleanup().  An exception then leaves authenticate();
\* a returned code passes `if not code` in _get_authorization_code and
\* _get_access_token issues the token request.
RunnerCleanup ==
    /\ pc = "cleanup"
    /\ runner' = "cleaned"
    /\ port' = "free"
    /\ pending' = NoOutcome
    /\ i' = 0
    /\ IF pending.kind = "return"
       THEN IF Truthy(pending.value)
            THEN /\ pc' = "exchange"
                 /\ exchangeStarted' = TRUE
                 /\ UNCHANGED result
            ELSE /\ pc' = "done"
                 /\ result' = Raised("authenticate", "AuthenticationError",
                                     <<"Failed to get authorization code">>)
                 /\ UNCHANGED exchangeStarted
       ELSE /\ pc' = "done"
            /\ result' = pending
            /\ UNCHANGED exchangeStarted
    /\ UNCHANGED <<tokenVars, cb, now, state, tokenBefore, redirected,
                   seen, urlOpened, lastResp, valid, apiVars, deviceVars,
                   lastReq, clientVars, overlapVars>>

\* The token endpoint answers the request of _get_access_token.
TokenResponse ==
    /\ pc = "exchange"
    /\ \E resp \in Responses :
          /\ lastResp' = Some([resp |-> resp, at |-> now])
          /\ IF ~IsSuccess(resp.status)
             THEN /\ result' = Raised("authenticate", "AuthenticationError",
                                      <<"Token request failed: ", resp.body>>)
                  /\ UNCHANGED tokenVars
             ELSE /\ access_token' = resp.access_token
                  /\ CASE resp.expires_in.kind = "number" ->
                            /\ token_expiry' = Some(ExpiryFrom(now, resp.expires_in.val))
                            /\ result' = Returned("authenticate", resp.access_token)
                       [] resp.expires_in.kind = "absent" ->
                            /\ token_expiry' = Some(ExpiryFrom(now, DefaultExpiresIn))
                            /\ result' = Returned("authenticate", resp.access_token)
                       [] OTHER ->
                            \* timedelta(seconds=expires_in) raises TypeError
                            /\ token_expiry' = token_expiry
                            /\ result' = Raised("authenticate", "TypeError",
                                                <<"unsupported type for timedelta">>)
    /\ pc' = "done"
    /\ UNCHANGED <<cb, now, i, state, runner, port, pending, tokenBefore,
                   redirected, seen, urlOpened, exchangeStarted, valid, apiVars, deviceVars,
                   lastReq, clientVars, overlapVars>>

\* The task is cancelled while the token request is in flight.
CancelExchange ==
    /\ pc = "exchange"
    /\ result' = Raised("authenticate", "CancelledError", <<>>)
    /\ pc' = "done"
    /\ UNCHANGED <<tokenVars, cb, now, i, state, runner, port, pending,
                   historyVars, valid, apiVars, deviceVars,
                   lastReq, clientVars, overlapVars>>

\* handler.refresh(...): the class defines no such attribute and holds no
\* refresh token, so the call raises AttributeError.
Refresh ==
    /\ pc \in {"idle", "done"}
    /\ result.op # "refresh"
    /\ result' = Raised("refresh", "AttributeError", <<"no attribute 'refresh'">>)
    /\ tokenBefore' = TokenState
    /\ UNCHANGED <<tokenVars, attemptVars, now, redirected, seen, urlOpened,
                   exchangeStarted, lastResp, valid, callPc, impl, apiTrace, apiResp,
          apiResult, mapping, registry, devices, last, sent,
                   lastReq, clientVars, overlapVars>>

Next ==
    \/ Tick
    \/ Authenticate
    \/ RunnerSetup
    \/ SiteStartOk
    \/ SiteStartFails
    \/ SiteStartCancelled
    \/ OpenBrowser
    \/ PollCheck
    \/ SleepDone
    \/ PollTimeout
    \/ CancelSleep
    \/ HandleCallback
    \/ RunnerCleanup
    \/ TokenResponse
    \/ CancelExchange
    \/ Refresh

Spec == Init /\ [][Next]_vars

\* The event loop resumes a sleeping task once its timer fires and runs a
\* ready task to its next await: the steps of the poll loop are fair.
FairSpec ==
    /\ Spec
    /\ WF_vars(PollCheck)
    /\ WF_vars(SleepDone)
    /\ WF_vars(PollTimeout)

\* The same steps with the listener's requests observed.
NextRedirect ==
    \/ Tick
    \/ Authenticate
    \/ RunnerSetup
    \/ SiteStartOk
    \/ SiteStartFails
    \/ SiteStartCancelled
    \/ OpenBrowser
    \/ PollCheck
    \/ SleepDone
    \/ PollTimeout
    \/ CancelSleep
    \/ ObserveCallback
    \/ RunnerCleanup
    \/ TokenResponse
    \/ CancelExchange
    \/ Refresh

SpecRedirect == Init /\ [][NextRedirect]_vars

----------------------------------------------------------------------------
\* A second authenticate() on the same handler while the first is suspended.
\* The second call is followed up to the failure of its bind; the schedules
\* in which it binds first are these with the two calls exchanged.

\* The awaits at which the first call is suspended, or not running.
Suspended == pc \in {"idle", "done", "setup", "start", "sleep", "cleanup", "exchange"}

\* The second call enters _start_auth_server: line 54 makes the handler
\* reference a new AuthCallback, and the object of a running first call is
\* from then on held by its own listener only; then runner.setup() is
\* awaited.
OtherBegins ==
    /\ other = "none"
    /\ Suspended
    /\ cb' = Some([auth_code |-> None, state |-> Absent])
    /\ own' = IF pc \in {"idle", "done"} \/ own # Absent THEN own ELSE cb
    /\ other' = "setup"
    /\ UNCHANGED <<tokenVars, now, pc, i, state, runner, port, pending,
                   result, historyVars, valid, apiVars, deviceVars, lastReq,
                   clientVars>>

\* await runner.setup() of the second call.
OtherRunnerSetup ==
    /\ other = "setup"
    /\ Suspended
    /\ other' = "start"
    /\ UNCHANGED <<tokenVars, attemptVars, now, result, historyVars, valid,
                   apiVars, deviceVars, lastReq, clientVars, own>>

\* await site.start() of the second call, the port being bound by the
\* first: OSError leaves the second call before its try.
OtherSiteStartFails ==
    /\ other = "start"
    /\ Suspended
    /\ port = "bound"
    /\ other' = "failed"
    /\ UNCHANGED <<tokenVars, attemptVars, now, result, historyVars, valid,
                   apiVars, deviceVars, lastReq, clientVars, own>>

\* AuthCallback._handle_callback of the listener the first call bound: the
\* request writes the fields of the object that listener was built on,
\* which is the handler's _auth_callback only while no later call replaced
\* the reference.
ServeCallback ==
    /\ port = "bound"
    /\ pc \in {"sleep", "cleanup"}
    /\ \E req \in Requests(state) :
          /\ IF own = Absent
             THEN /\ cb' = Some([auth_code |-> req.authorization_code,
                                 state |-> req.state])
                  /\ own' = own
             ELSE /\ own' = Some([auth_code |-> req.authorization_code,
                                  state |-> req.state])
                  /\ cb' = cb
          /\ lastReq' = Some([query |-> req, during |-> pc])
    /\ redirected' = TRUE
    /\ UNCHANGED <<tokenVars, now, pc, i, state, runner, port, pending,
                   result, tokenBefore, seen, urlOpened, exchangeStarted,
                   lastResp, valid, apiVars, deviceVars, clientVars, other>>

NextOverlap ==
    \/ Authenticate
    \/ RunnerSetup
    \/ SiteStartOk
    \/ SiteStartFails
    \/ OpenBrowser
    \/ PollCheck
    \/ SleepDone
    \/ PollTimeout
    \/ ServeCallback
    \/ RunnerCleanup
    \/ TokenResponse
    \/ OtherBegins
    \/ OtherRunnerSetup
    \/ OtherSiteStartFails

SpecOverlap == Init /\ [][NextOverlap]_vars

----------------------------------------------------------------------------
\* validate_token() on its own: a handler in any token state, read at any
\* instant around the margin.
ValidateExpiries ==
    {0, DefaultExpiresIn} \cup {Margin + k : k \in 0..MaxSkew}

InitValidate ==
    /\ access_token \in Tokens \cup {None}
    /\ token_expiry \in {Absent} \cup {Some(e) : e \in ValidateExpiries}
    /\ now \in 0..MaxSkew
    /\ cb = Absent
    /\ pc = "idle"
    /\ i = 0
    /\ state = 0
    /\ runner = "none"
    /\ port = "free"
    /\ pending = NoOutcome
    /\ result = NoOutcome
    /\ tokenBefore = [access_token |-> None, token_expiry |-> Absent]
    /\ redirected = FALSE
    /\ seen = Absent
    /\ urlOpened = FALSE
    /\ exchangeStarted = FALSE
    /\ lastResp = Absent
    /\ lastReq = Absent
    /\ valid = Absent
    /\ ApiIdle
    /\ NoDevices
    /\ ClientOpen

\* A call of validate_token().
ValidateTokenCall ==
    /\ pc = "idle"
    /\ valid = Absent
    /\ valid' = Some(validate_token)
    /\ UNCHANGED <<tokenVars, attemptVars, now, result, historyVars, apiVars,
                   deviceVars,
                   lastReq, clientVars, overlapVars>>

NextValidate == ValidateTokenCall

SpecValidate == InitValidate /\ [][NextValidate]_vars
----------------------------------------------------------------------------
\* UHomeApi._api_call (src/api.py:52-81) over the AuthenticationHandler: one
\* dispatch at a time, the steps of authenticate() in between.

\* The headers _api_call builds for the POST: f"Bearer {access_token}" is
\* the word Bearer followed by the text of whatever the attribute holds.
headers ==
    [Authorization |-> <<"Bearer", access_token>>,
     ContentType |-> "application/json"]

\* The rest of _api_call up to its next await: the headers are built and the
\* POST is issued.
IssuePost ==
    /\ callPc' = "wait"
    /\ apiTrace' = Append(apiTrace, "POST")

\* _api_call is called: validate_token() is read and, when it is false,
\* authenticate() is awaited; otherwise the POST is issued at once.
ApiCall ==
    /\ callPc \in {"idle", "done"}
    /\ pc \in {"idle", "done"}
    /\ apiResp' = Absent
    /\ apiResult' = ApiNoOutcome
    /\ IF ApiNeedsAuth
       THEN /\ BeginAuthenticate
            /\ callPc' = "auth"
            /\ apiTrace' = <<IF validate_token THEN "valid" ELSE "invalid",
                             "authenticate">>
            /\ UNCHANGED <<tokenVars, now, port, valid, impl, deviceVars,
                   clientVars, other>>
       ELSE /\ callPc' = "wait"
            /\ apiTrace' = <<IF validate_token THEN "valid" ELSE "invalid",
                             "POST">>
            /\ UNCHANGED <<tokenVars, attemptVars, now, result, historyVars,
                           valid, impl, deviceVars,
                   lastReq, clientVars, overlapVars>>

\* authenticate() returned to _api_call: the POST is issued.
ApiAuthReturned ==
    /\ callPc = "auth"
    /\ pc = "done"
    /\ result.kind = "return"
    /\ IssuePost
    /\ UNCHANGED <<tokenVars, attemptVars, now, result, historyVars, valid,
                   impl, apiResp, apiResult, deviceVars,
                   lastReq, clientVars, overlapVars>>

\* A dispatch that swallowed the exception of authenticate() and went on to
\* the POST.
ApiAuthRaisedThenPost ==
    /\ callPc = "auth"
    /\ pc = "done"
    /\ result.kind # "return"
    /\ IssuePost
    /\ UNCHANGED <<tokenVars, attemptVars, now, result, historyVars, valid,
                   impl, apiResp, apiResult, deviceVars,
                   lastReq, clientVars, overlapVars>>

\* authenticate() raised: the exception leaves _api_call.
ApiAuthRaised ==
    /\ callPc = "auth"
    /\ pc = "done"
    /\ result.kind # "return"
    /\ callPc' = "done"
    /\ apiResult' = ApiRaisedError(result.kind, "")
    /\ UNCHANGED <<tokenVars, attemptVars, now, result, historyVars, valid,
                   impl, apiTrace, apiResp, deviceVars,
                   lastReq, clientVars, overlapVars>>

\* The number of POSTs the running dispatch has issued.
Posts == Cardinality({k \in DOMAIN apiTrace : apiTrace[k] = "POST"})

\* A dispatch that sent the request once more after an error response.
ApiResponseResent ==
    /\ callPc = "wait"
    /\ \E status \in ApiStatuses, body \in ApiBodies :
          /\ apiResp' = Some([status |-> status, body |-> body])
          /\ IF api_call(status, body).kind = "ApiError" /\ Posts < 2
             THEN /\ apiResult' = apiResult
                  /\ callPc' = "wait"
                  /\ apiTrace' = Append(apiTrace, "POST")
             ELSE /\ apiResult' = api_call(status, body)
                  /\ callPc' = "done"
                  /\ apiTrace' = apiTrace
    /\ UNCHANGED <<tokenVars, attemptVars, now, result, historyVars, valid,
                   impl, deviceVars,
                   lastReq, clientVars, overlapVars>>

\* The action endpoint answers and the `async with` block classifies the
\* response.
ApiResponse ==
    /\ callPc = "wait"
    /\ \E status \in ApiStatuses, body \in ApiBodies :
          /\ apiResp' = Some([status |-> status, body |-> body])
          /\ apiResult' = api_call(status, body)
    /\ callPc' = "done"
    /\ UNCHANGED <<tokenVars, attemptVars, now, result, historyVars, valid,
                   impl, apiTrace, deviceVars,
                   lastReq, clientVars, overlapVars>>

\* What session.request raises when no response arrives: a connection error
\* or the timeout of DEFAULT_TIMEOUT.
TransportErrors == {"ClientError", "TimeoutError"}

\* The request fails in transport: _api_call has no except clause, so the
\* exception of session.request leaves it.
ApiTransportFails ==
    /\ callPc = "wait"
    /\ \E kind \in TransportErrors :
          apiResult' = ApiRaisedError(kind, "")
    /\ callPc' = "done"
    /\ UNCHANGED <<tokenVars, attemptVars, now, result, historyVars, valid,
                   impl, apiTrace, apiResp, deviceVars,
                   lastReq, clientVars, overlapVars>>

NextApi ==
    \/ Tick
    \/ ApiCall
    \/ RunnerSetup
    \/ SiteStartOk
    \/ SiteStartFails
    \/ SiteStartCancelled
    \/ OpenBrowser
    \/ PollCheck
    \/ SleepDone
    \/ PollTimeout
    \/ CancelSleep
    \/ HandleCallback
    \/ RunnerCleanup
    \/ TokenResponse
    \/ CancelExchange
    \/ ApiAuthReturned
    \/ ApiAuthRaised
    \/ ApiResponse
    \/ ApiTransportFails

SpecApi == Init /\ [][NextApi]_vars

----------------------------------------------------------------------------
\* The classification of a response on its own, for each draft of the client
\* and every status and body.
InitDispatch ==
    /\ HandlerConstructed
    /\ callPc = "idle"
    /\ impl \in Impls
    /\ apiTrace = <<>>
    /\ apiResp = Absent
    /\ apiResult = ApiNoOutcome
    /\ NoDevices
    /\ ClientOpen

\* The endpoint's answer reaches the draft's dispatch, which classifies it.
Dispatch ==
    /\ callPc = "idle"
    /\ \E status \in ApiStatuses, body \in ApiBodies :
          /\ apiResp' = Some([status |-> status, body |-> body])
          /\ apiResult' = Classify(impl, status, body)
    /\ callPc' = "done"
    /\ UNCHANGED <<tokenVars, attemptVars, now, result, historyVars, valid,
                   impl, apiTrace, deviceVars,
                   lastReq, clientVars, overlapVars>>

NextDispatch == Dispatch

SpecDispatch == InitDispatch /\ [][NextDispatch]_vars

----------------------------------------------------------------------------
\* The device factory in use: records are fed to create_device, handle types
\* are registered, and the devices returned are commanded and refreshed.

\* DeviceFacilitator.create_device(record, api); the caller keeps the device.
CreateDevice ==
    /\ Cardinality(devices) < MaxDevices
    /\ \E data \in Records :
          LET r == create_device(data, mapping, registry) IN
          /\ last' = [op |-> "create_device", input |-> Some(data),
                      after |-> Some(r.data), value |-> 0,
                      response |-> Absent, before |-> Absent,
                      outcome |-> r.outcome]
          /\ devices' = IF r.outcome.device # Absent
                        THEN devices \cup {Val(r.outcome.device)}
                        ELSE devices
    /\ sent' = <<>>
    /\ UNCHANGED <<tokenVars, attemptVars, now, result, historyVars, valid,
                   apiVars, mapping, registry,
                   lastReq, clientVars, overlapVars>>

\* DeviceFacilitator.register_device_class (device_manager.py:145-162).
RegisterDeviceClass ==
    /\ \E r \in RegisterInputs :
          /\ mapping' = [mapping EXCEPT ![r.handle_type] = r.device_class]
          /\ registry' = [registry EXCEPT ![r.handle_type] = Some(r.capabilities)]
          /\ last' = [op |-> "register_device_class", input |-> Some(r),
                      after |-> Some([mapping |-> mapping,
                                      registry |-> registry]),
                      value |-> 0, response |-> Absent, before |-> Absent,
                      outcome |-> DevReturned(Absent)]
    /\ sent' = <<>>
    /\ UNCHANGED <<tokenVars, attemptVars, now, result, historyVars, valid,
                   apiVars, devices,
                   lastReq, clientVars, overlapVars>>

\* The device the caller holds, as an operation on it leaves it.
Held(dev, r) == (devices \ {dev}) \cup {With(dev, r)}

\* The operation as recorded: the device's record, the value given, the
\* answer the client had for the call and the state the device had.
Operation(op, dev, value, response, r) ==
    [op |-> op, input |-> Some(dev.data), after |-> Some(dev.data),
     value |-> value, response |-> response, before |-> dev.state_data,
     outcome |-> r.outcome]

\* light.set_brightness(v) on a Light the caller holds.
SetBrightness ==
    /\ \E dev \in devices, v \in BrightnessInputs, response \in DeviceResponses :
          /\ dev.cls = "Light"
          /\ LET r == set_brightness(dev, v, response) IN
             /\ last' = Operation("set_brightness", dev, v, response, r)
             /\ sent' = r.sent
             /\ devices' = Held(dev, r)
    /\ UNCHANGED <<tokenVars, attemptVars, now, result, historyVars, valid,
                   apiVars, mapping, registry, lastReq, clientVars, overlapVars>>

\* light.set_color_temp(v) on a Light the caller holds.
SetColorTemp ==
    /\ \E dev \in devices, v \in ColorTempInputs, response \in DeviceResponses :
          /\ dev.cls = "Light"
          /\ LET r == set_color_temp(dev, v, response) IN
             /\ last' = Operation("set_color_temp", dev, v, response, r)
             /\ sent' = r.sent
             /\ devices' = Held(dev, r)
    /\ UNCHANGED <<tokenVars, attemptVars, now, result, historyVars, valid,
                   apiVars, mapping, registry, lastReq, clientVars, overlapVars>>

\* light.set_rgb_color(r, g, b) on a Light the caller holds.
SetRgbColor ==
    /\ \E dev \in devices, c \in ColorInputs, response \in DeviceResponses :
          /\ dev.cls = "Light"
          /\ LET r == set_rgb_color(dev, c[1], c[2], c[3], response) IN
             /\ last' = Operation("set_rgb_color", dev, c, response, r)
             /\ sent' = r.sent
             /\ devices' = Held(dev, r)
    /\ UNCHANGED <<tokenVars, attemptVars, now, result, historyVars, valid,
                   apiVars, mapping, registry, lastReq, clientVars, overlapVars>>

\* light.turn_on(**kwargs) on a Light the caller holds.
TurnOn ==
    /\ \E dev \in devices, kwargs \in TurnOnInputs, response \in DeviceResponses :
          /\ dev.cls = "Light"
          /\ LET r == turn_on(dev, kwargs, response) IN
             /\ last' = Operation("turn_on", dev, kwargs, response, r)
             /\ sent' = r.sent
             /\ devices' = Held(dev, r)
    /\ UNCHANGED <<tokenVars, attemptVars, now, result, historyVars, valid,
                   apiVars, mapping, registry, lastReq, clientVars, overlapVars>>

\* device.send_command(command) on a device the caller holds.
SendCommand ==
    /\ \E dev \in devices, command \in Commands, response \in DeviceResponses :
          LET r == send_command(dev, command, response) IN
          /\ last' = Operation("send_command", dev, 0, response, r)
          /\ sent' = r.sent
          /\ devices' = Held(dev, r)
    /\ UNCHANGED <<tokenVars, attemptVars, now, result, historyVars, valid,
                   apiVars, mapping, registry, lastReq, clientVars, overlapVars>>

\* device.update() on a device the caller holds.
Update ==
    /\ \E dev \in devices, response \in DeviceResponses :
          LET r == update(dev, response) IN
          /\ last' = Operation("update", dev, 0, response, r)
          /\ sent' = r.sent
          /\ devices' = Held(dev, r)
    /\ UNCHANGED <<tokenVars, attemptVars, now, result, historyVars, valid,
                   apiVars, mapping, registry, lastReq, clientVars, overlapVars>>

NextDevice ==
    \/ CreateDevice
    \/ RegisterDeviceClass
    \/ SetBrightness
    \/ SetColorTemp
    \/ SetRgbColor
    \/ TurnOn
    \/ SendCommand
    \/ Update

SpecDevice == Init /\ [][NextDevice]_vars

----------------------------------------------------------------------------
\* The client's request envelopes and its close(), for each draft.

MaxEnvelopes == 3

ApiOperations == {"Discovery", "Query", "Command"}

\* The messageID values of the envelopes built so far.
IssuedIds == {messageIds[k].messageID : k \in DOMAIN messageIds}

\* uuid4(): 122 random bits.  The generator is taken at its contract: it
\* returns a value it has not returned before.
uuid4(used) == CHOOSE u \in 1..(Cardinality(used) + 1) : u \notin used

create_request_cached(name, used) ==
    [namespace |-> "Uhome.Device", name |-> name,
     messageID |-> IF used = {} THEN uuid4(used) ELSE CHOOSE u \in used : TRUE,
     payloadVersion |-> "1"]

\* The header each draft builds (_generate_payload, async_create_request,
\* _create_request): uuid4() is called inside, once per envelope.
create_request(name, used) ==
    [namespace |-> "Uhome.Device", name |-> name, messageID |-> uuid4(used),
     payloadVersion |-> "1"]

\* A discovery, query or command call builds its envelope.
CreateRequest ==
    /\ Len(messageIds) < MaxEnvelopes
    /\ \E name \in ApiOperations :
          messageIds' = Append(messageIds, create_request(name, IssuedIds))
    /\ UNCHANGED <<tokenVars, attemptVars, now, result, historyVars, valid,
                   apiVars, deviceVars, lastReq, session, closeResult, request,
                   overlapVars>>

ApiReturnedNone ==
    [kind |-> "return", payload |-> Absent, status_code |-> 0, message |-> ""]

\* AbstractAuth (auth.py:5-26): what an auth object has by its base class.
AuthAttributes ==
    {"websession", "host", "async_get_access_token", "async_make_auth_request"}

\* close() of each draft: src/api.py awaits session.close(), which closes an
\* open session and does nothing to a closed one; the other two await
\* self.auth.close().
close(draft, sess) ==
    IF draft = "_api_call"
    THEN [outcome |-> ApiReturnedNone, session |-> "closed"]
    ELSE IF "close" \in AuthAttributes
    THEN [outcome |-> ApiReturnedNone, session |-> "closed"]
    ELSE [outcome |-> ApiRaisedError("AttributeError",
                         "'Auth' object has no attribute 'close'"),
          session |-> sess]

\* await api.close()
Close ==
    /\ closeResult' = close(impl, session).outcome
    /\ session' = close(impl, session).session
    /\ UNCHANGED <<tokenVars, attemptVars, now, result, historyVars, valid,
                   apiVars, deviceVars, lastReq, messageIds, request,
                   overlapVars>>

\* The arguments a caller gives to a command: None, an empty dict, or a
\* dict (as the set of its items).
CommandArguments == {Absent, Some({}), Some({<<"level", 50>>})}

\* send_command of src/utec_py/api.py and src/utec_py_LF2b2w/api.py: the
\* command descriptor gets an arguments key only `if arguments:`, and sits
\* next to the id in the one device entry.
client_send_command(device_id, capability, command, arguments) ==
    LET command_data ==
            IF arguments # Absent /\ Val(arguments) # {}
            THEN [capability |-> capability, name |-> command,
                  arguments |-> Val(arguments)]
            ELSE [capability |-> capability, name |-> command]
    IN  [outcome |-> "awaited",
         params |-> Some([devices |-> <<[id |-> device_id,
                                         command |-> command_data]>>])]

\* _send_command of src/api.py: the id and the command descriptor are two
\* entries of the devices list; the coroutine of _generate_payload is
\* returned without being awaited.
core_send_command(device_id, capability, command) ==
    [outcome |-> "coroutine",
     params |-> Some([devices |-> <<[id |-> device_id],
                                    [command |-> [capability |-> capability,
                                                  name |-> command]]>>])]

\* _send_command_with_arg of src/api.py: `{arguments}` is a set display, so
\* a dict raises TypeError (unhashable) and None gives the set {None}; the
\* parameters are built and dropped, and the function returns None.
core_send_command_with_arg(device_id, capability, command, arguments) ==
    IF arguments # Absent
    THEN [outcome |-> "TypeError", params |-> Absent]
    ELSE [outcome |-> "None", params |-> Absent]

\* A command call on the client of a draft, up to its dispatch: src/api.py
\* has _send_command for a command without arguments and
\* _send_command_with_arg for one with; the other drafts build the envelope
\* around the parameters.
SendCommandRequest ==
    /\ \E arguments \in CommandArguments :
          LET built ==
                  IF impl # "_api_call"
                  THEN client_send_command("d1", DeviceCapability.BRIGHTNESS,
                                           "setLevel", arguments)
                  ELSE IF arguments = Absent
                  THEN core_send_command("d1", DeviceCapability.BRIGHTNESS,
                                         "setLevel")
                  ELSE core_send_command_with_arg("d1",
                           DeviceCapability.BRIGHTNESS, "setLevel", arguments)
          IN  /\ request' = Some([arguments |-> arguments,
                                  outcome |-> built.outcome,
                                  params |-> built.params])
              /\ IF built.outcome = "awaited"
                 THEN /\ Len(messageIds) < MaxEnvelopes
                      /\ messageIds' = Append(messageIds,
                                           create_request("Command", IssuedIds))
                 ELSE messageIds' = messageIds
    /\ UNCHANGED <<tokenVars, attemptVars, now, result, historyVars, valid,
                   apiVars, deviceVars, lastReq, session, closeResult,
                   overlapVars>>

NextClient ==
    \/ CreateRequest
    \/ Close
    \/ SendCommandRequest

SpecClient == InitDispatch /\ [][NextClient]_vars

----------------------------------------------------------------------------
\* Properties.

AuthDone == pc = "done" /\ result.op = "authenticate"
MismatchError == Raised("authenticate", "AuthenticationError", <<"State mismatch">>)
TokenAnswer == Val(lastResp).resp

\* C1: whenever the poll that ends the wait reads a callback whose state
\* differs from the state generated for the attempt, the attempt carries
\* AuthenticationError("State mismatch") through cleanup and ends with it,
\* the token request is never issued, no token is returned and the token
\* state stays what it was when authenticate() was called.  Conversely the
\* token request is only ever issued after the poll read a code together
\* with the generated state.
C1_StateMismatchYieldsNoToken ==
    /\ (seen # Absent /\ Val(seen).state # Some(state)) =>
          /\ ~exchangeStarted
          /\ lastResp = Absent
          /\ TokenState = tokenBefore
          /\ pc \in {"cleanup", "done"}
          /\ pc = "cleanup" => pending = MismatchError
          /\ AuthDone => result = MismatchError
    /\ (exchangeStarted \/ lastResp # Absent) =>
          /\ seen # Absent
          /\ Val(seen).state = Some(state)
          /\ Truthy(Val(seen).auth_code)

\* C1 witness: an attempt that ended on a mismatching state while a token
\* from an earlier attempt was held.
C1_Witness ==
    /\ AuthDone
    /\ seen # Absent
    /\ Val(seen).state # Some(state)
    /\ result = MismatchError
    /\ access_token \in Tokens

\* C2: an attempt whose poll window ran without the listener handling any
\* request and without being cancelled ends with
\* AuthenticationError("Authorization timeout"), and the access token and the
\* expiry are what they were when authenticate() was called.
C2_NoRedirectTimesOut ==
    /\ (pc = "cleanup" /\ ~redirected /\ pending.kind # "CancelledError") =>
          /\ pending = Raised("authenticate", "AuthenticationError",
                              <<"Authorization timeout">>)
          /\ TokenState = tokenBefore
    /\ (AuthDone /\ urlOpened /\ ~redirected /\ result.kind # "CancelledError") =>
          /\ result = Raised("authenticate", "AuthenticationError",
                             <<"Authorization timeout">>)
          /\ ~exchangeStarted
          /\ TokenState = tokenBefore

\* C2 witness: a timed-out attempt with no request handled, made while a
\* token was held.
C2_Witness ==
    /\ AuthDone
    /\ urlOpened
    /\ ~redirected
    /\ result.msg = <<"Authorization timeout">>
    /\ access_token \in Tokens
    /\ token_expiry # Absent

\* C3: validate_token() returns true exactly when an access token is present,
\* an expiry is present and the clock is strictly before the expiry minus 5
\* minutes (300 s); at exactly expiry minus 5 minutes it returns false, and
\* on a freshly constructed handler it returns false.
C3_ValidateToken ==
    valid # Absent =>
        /\ Val(valid) <=> (/\ access_token \in Tokens
                           /\ token_expiry # Absent
                           /\ now + 300 < Val(token_expiry))
        /\ (token_expiry # Absent /\ now = Val(token_expiry) - 300) => ~Val(valid)
        /\ (access_token = None /\ token_expiry = Absent) => ~Val(valid)

\* C3 witness: a call made exactly at expiry minus 5 minutes with a token
\* held, which returned false.
C3_Witness ==
    /\ valid = Some(FALSE)
    /\ access_token \in Tokens
    /\ token_expiry # Absent
    /\ now = Val(token_expiry) - 300

\* C4 (as claimed): every attempt that set up its runner ends with the runner
\* cleaned up and the port released.
C4_ListenerAlwaysStopped ==
    (pc = "done" /\ runner # "none") => (runner = "cleaned" /\ port = "free")

\* C5: the URL is opened only in a step taken with the runner set up and
\* the port bound, and an attempt whose site.start() raised never opened it.
C5_ListenerBeforeUrl ==
    /\ [][(~urlOpened /\ urlOpened') => (runner = "setup" /\ port = "bound")]_vars
    /\ [](urlOpened => runner \in {"setup", "cleaned"})
    /\ []((AuthDone /\ result.kind = "OSError") => ~urlOpened)

\* C5 witness: the URL has been opened and the listener is up.
C5_Witness ==
    /\ urlOpened
    /\ pc = "poll"
    /\ i = 0
    /\ runner = "setup"
    /\ port = "bound"

\* C6: the loop never sleeps more than 60 times; the timeout error is raised
\* exactly when 60 sleeps have passed without a code being read, the loop
\* takes no other step then, and under the event loop's fairness every wait
\* ends.
C6_WaitIsBounded ==
    /\ [](i <= 60)
    /\ [](pc = "sleep" => i < 60)
    /\ []((pc = "cleanup" /\ pending.msg = <<"Authorization timeout">>) =>
            (i = 60 /\ pending.kind = "AuthenticationError" /\ seen = Absent))
    /\ [][(pc = "poll" /\ i = 60 /\ pc' # pc) =>
            (pc' = "cleanup" /\ pending'.kind = "AuthenticationError")]_vars
    /\ (pc \in {"poll", "sleep"}) ~> (pc \notin {"poll", "sleep"})

\* C6 witness: the 60th sleep is over and the timeout is on its way out.
C6_Witness ==
    /\ pc = "cleanup"
    /\ i = 60
    /\ pending.msg = <<"Authorization timeout">>

\* C7 (as claimed): an access token is never held without an expiry.
C7_TokenImpliesExpiry ==
    access_token # None => token_expiry # Absent

\* C8: after the token endpoint answered status 200 with a numeric
\* expires_in, the handler holds the answer's access token, the expiry is the
\* instant of the exchange plus expires_in seconds, and authenticate()
\* returned that access token.
C8_SuccessReplacesTokenState ==
    (/\ AuthDone
     /\ lastResp # Absent
     /\ TokenAnswer.status = 200
     /\ TokenAnswer.expires_in.kind = "number") =>
        /\ access_token = TokenAnswer.access_token
        /\ token_expiry = Some(Val(lastResp).at + TokenAnswer.expires_in.val)
        /\ result = Returned("authenticate", TokenAnswer.access_token)

\* C8 witness: a successful exchange, later than instant 0, that replaced a
\* different token held before.
C8_Witness ==
    /\ AuthDone
    /\ lastResp # Absent
    /\ Val(lastResp).at > 0
    /\ TokenAnswer.status = 200
    /\ TokenAnswer.expires_in.kind = "number"
    /\ result.kind = "return"
    /\ access_token \in Tokens
    /\ tokenBefore.access_token \in Tokens \ {access_token}
    /\ tokenBefore.token_expiry # token_expiry

\* C9: after the token endpoint answered any status other than 200, the
\* attempt ended with AuthenticationError carrying the response body and the
\* token state is what it was when authenticate() was called.
C9_FailureLeavesTokenState ==
    (AuthDone /\ lastResp # Absent /\ TokenAnswer.status # 200) =>
        /\ result = Raised("authenticate", "AuthenticationError",
                           <<"Token request failed: ", TokenAnswer.body>>)
        /\ TokenState = tokenBefore

\* C9 witness: status 500 with body "boom" while a token was held.
C9_Witness ==
    /\ AuthDone
    /\ lastResp # Absent
    /\ TokenAnswer.status = 500
    /\ TokenAnswer.body = "boom"
    /\ result.msg = <<"Token request failed: ", "boom">>
    /\ access_token \in Tokens
    /\ TokenState = tokenBefore

\* C10 (as claimed): refresh() called with no refresh token held fails with
\* AuthenticationError.
C10_RefreshWithoutTokenFails ==
    result.op = "refresh" => result.kind = "AuthenticationError"

\* C11: a dispatch reads validate_token() first; when it is true the POST is
\* issued with no authenticate() call, when it is false authenticate() is
\* called once and the POST is issued only after it returned; no
\* authenticate() begins while a dispatch is under way and none refreshes.
C11_AuthenticateOnceBeforePost ==
    /\ [](callPc # "idle" =>
            \/ apiTrace = <<"valid", "POST">>
            \/ apiTrace = <<"invalid", "authenticate">>
            \/ apiTrace = <<"invalid", "authenticate", "POST">>)
    /\ [](callPc = "auth" => apiTrace = <<"invalid", "authenticate">>)
    /\ [](apiTrace = <<"invalid", "authenticate", "POST">> =>
            (AuthDone /\ result.kind = "return"))
    /\ []((callPc = "done" /\ apiTrace = <<"invalid", "authenticate">>) =>
            (AuthDone /\ result.kind # "return" /\ apiResp = Absent))
    /\ [][(callPc' = "auth" /\ callPc # "auth") =>
            (~(access_token # None /\ token_expiry # Absent
               /\ now + 300 < Val(token_expiry))
             /\ pc' = "setup")]_vars
    /\ [][(callPc' = "wait" /\ callPc # "wait") =>
            \/ (callPc = "auth" /\ AuthDone /\ result.kind = "return")
            \/ (/\ callPc \in {"idle", "done"}
                /\ access_token # None
                /\ token_expiry # Absent
                /\ now + 300 < Val(token_expiry)
                /\ UNCHANGED pc)]_vars
    /\ [][(pc' = "setup" /\ pc # "setup") => callPc \in {"idle", "done"}]_vars
    /\ [](result.op # "refresh")

\* C11 witness: a dispatch that found the token valid and posted at once,
\* the token being the one an earlier dispatch obtained by authenticating.
C11_Witness ==
    /\ callPc = "done"
    /\ apiTrace = <<"valid", "POST">>
    /\ AuthDone
    /\ result.kind = "return"
    /\ exchangeStarted
    /\ apiResult.kind = "return"

\* C12 (as claimed): a dispatch answered with status 204 returns the empty
\* payload.
C12_NoContentIsEmptySuccess ==
    (callPc = "done" /\ apiResp # Absent /\ Val(apiResp).status = 204) =>
        apiResult = ApiReturned({})

\* C13: _async_make_request raises ApiError exactly for the statuses other
\* than 200, 201, 202 and 204; the ApiError carries the status and the raw
\* body (status 500 with body "boom" gives 500 and "boom"); for 200, 201 and
\* 202 with a JSON body the decoded body is returned.
C13_ApiErrorIffOtherStatus ==
    (callPc = "done" /\ impl = "_async_make_request" /\ apiResp # Absent) =>
        /\ apiResult.kind = "ApiError" <=>
              Val(apiResp).status \notin {200, 201, 202, 204}
        /\ apiResult.kind = "ApiError" =>
              /\ apiResult.status_code = Val(apiResp).status
              /\ apiResult.message = Val(apiResp).body
        /\ (Val(apiResp).status \in {200, 201, 202}
            /\ Val(apiResp).body = "{\"payload\":{}}") =>
              apiResult = ApiReturned({"payload"})
        /\ (Val(apiResp).status \in {200, 201, 202}
            /\ Val(apiResp).body = "{}") =>
              apiResult = ApiReturned({})

\* C13 witness: status 500 with body "boom" answered to _async_make_request.
C13_Witness ==
    /\ callPc = "done"
    /\ impl = "_async_make_request"
    /\ apiResp = Some([status |-> 500, body |-> "boom"])
    /\ apiResult.kind = "ApiError"
    /\ apiResult.status_code = 500
    /\ apiResult.message = "boom"

LastRecord == Val(last.input)
LastType == Val(LastRecord.handleType)
LastDeclared == Val(LastRecord.supportedCapabilities)
LastRegistered ==
    /\ last.op = "create_device"
    /\ LastRecord.handleType \notin {Absent, Some("")}
    /\ mapping[LastType] # None

\* C14 (as claimed): create_device on a record of a registered handle type
\* whose declared capabilities lack a required one fails with a DeviceError
\* that names required minus declared, and returns no device.
C14_MissingCapabilitiesNamed ==
    (/\ LastRegistered
     /\ LastRecord.supportedCapabilities # Absent
     /\ ~(RequiredOf(registry, LastType) \subseteq LastDeclared.elems)) =>
        /\ last.outcome.kind = "DeviceError"
        /\ last.outcome.missing =
              Some(RequiredOf(registry, LastType) \ LastDeclared.elems)
        /\ last.outcome.device = Absent

C16_MissingHandleTypeFails ==
    (last.op = "create_device" /\ LastRecord.handleType = Absent) =>
        /\ last.outcome.kind = "DeviceError"
        /\ last.outcome.id = Some(LastRecord.id)
        /\ \E k \in DOMAIN last.outcome.text :
              last.outcome.text[k] = LastRecord.id
        /\ last.outcome.device = Absent
        /\ last.after = last.input

\* C16 witness: record d2, its capabilities declared and no handle type.
C16_Witness ==
    /\ last.op = "create_device"
    /\ LastRecord.handleType = Absent
    /\ LastRecord.id = "d2"
    /\ LastRecord.supportedCapabilities # Absent
    /\ last.outcome.text =
          <<"Failed to create device from discovery data: ",
            "Missing handle type in discovery data for device: ", "d2">>

\* C17 (as claimed): every device that exists declares all the capabilities
\* the registry requires of its handle type.
C17_RequiredSubsetOfCapabilities ==
    \A dev \in devices :
        RequiredOf(registry, Val(dev.data.handleType))
            \subseteq Val(dev.data.supportedCapabilities).elems

\* C18 (as claimed): create_device on a record of a registered handle type
\* with sufficient capabilities returns a device whose capabilities are the
\* declared ones and whose category is that of its class: lock for a Lock,
\* light for a Light.
C18_DevicePerRecord ==
    (/\ LastRegistered
     /\ LastRecord.supportedCapabilities # Absent
     /\ RequiredOf(registry, LastType) \subseteq LastDeclared.elems) =>
        /\ last.outcome.kind = "return"
        /\ last.outcome.device # Absent
        /\ Val(last.outcome.device).cls = mapping[LastType]
        /\ Val(last.outcome.device).data.supportedCapabilities =
              LastRecord.supportedCapabilities
        /\ mapping[LastType] = "Lock" =>
              category(Val(last.outcome.device)) = Some("LOCK")
        /\ mapping[LastType] = "Light" =>
              category(Val(last.outcome.device)) = Some("LIGHT")

\* C19 (as claimed): set_brightness with a value outside 0..100 raises
\* ValidationError and dispatches nothing.
C19_OutOfRangeIsValidationError ==
    (last.op = "set_brightness" /\ last.value \notin 0..100) =>
        /\ last.outcome.kind = "ValidationError"
        /\ sent = <<>>

\* C20 (as claimed): set_brightness with a value in 0..100 dispatches exactly
\* one Command, for the brightness capability, with the value as argument.
C20_InRangeDispatchesOnce ==
    (last.op = "set_brightness" /\ last.value \in 0..100) =>
        /\ Len(sent) = 1
        /\ sent[1].operation = "Command"
        /\ sent[1].command.capability \in {"Brightness", "st.Brightness"}
        /\ sent[1].command.arguments.value = last.value

\* C21 (as claimed): set_color_temp accepts a value exactly when it lies in
\* the colour-temperature range the light's discovery record declares; a
\* value outside it raises ValidationError and dispatches nothing.
C21_ColorTempWithinDeclaredRange ==
    last.op = "set_color_temp" =>
        LET range == ColorTemperatureRange(LastRecord) IN
        /\ (last.value \in range.min..range.max)
              <=> (last.outcome.kind # "ValidationError")
        /\ last.outcome.kind = "ValidationError" => sent = <<>>

\* C22 (as claimed): set_rgb_color with a component outside 0..255 raises
\* ValidationError and dispatches nothing; with all three in 0..255 it
\* dispatches exactly one Command.
C22_ColorComponentsChecked ==
    last.op = "set_rgb_color" =>
        IF \E k \in 1..3 : last.value[k] \notin 0..255
        THEN /\ last.outcome.kind = "ValidationError"
             /\ sent = <<>>
        ELSE /\ Len(sent) = 1
             /\ sent[1].operation = "Command"
             /\ sent[1].command.capability \in {"Color", "st.Color"}
\* C23 (as claimed): right after register_device_class(h, class, caps) the
\* class and the required capabilities resolved for h are the ones just
\* registered and those of every other handle type are as before; and
\* create_device on a record of a handle type whose registration was
\* changed, declaring what is now required, returns a device of the class
\* now registered.
C23_LastRegistrationWins ==
    /\ last.op = "register_device_class" =>
          LET r == Val(last.input)
              before == Val(last.after)
          IN /\ mapping[r.handle_type] = r.device_class
             /\ registry[r.handle_type] = Some(r.capabilities)
             /\ \A t \in AllTypes \ {r.handle_type} :
                   /\ mapping[t] = before.mapping[t]
                   /\ registry[t] = before.registry[t]
    /\ (/\ LastRegistered
        /\ \/ mapping[LastType] # MappingInitial[LastType]
           \/ registry[LastType] # RegistryInitial[LastType]
        /\ LastRecord.supportedCapabilities # Absent
        /\ RequiredOf(registry, LastType) \subseteq LastDeclared.elems) =>
          /\ last.outcome.kind = "return"
          /\ last.outcome.device # Absent
          /\ Val(last.outcome.device).cls = mapping[LastType]
\* C24: every request envelope is built with a messageID of its own: no two
\* envelopes built by a client carry the same one.
C24_MessageIdsDistinct ==
    \A j, k \in DOMAIN messageIds :
        j # k => messageIds[j].messageID # messageIds[k].messageID

\* C24 witness: three envelopes were built, two of them for the same
\* operation.
C24_Witness ==
    /\ Len(messageIds) = 3
    /\ messageIds[1].name = "Query"
    /\ messageIds[2].name = "Command"
    /\ messageIds[3].name = "Query"
    /\ Cardinality(IssuedIds) = 3

\* C25 (as claimed): close() releases the transport and can be repeated:
\* every call returns without error and leaves the transport closed.
C25_CloseIsIdempotent ==
    closeResult.kind # "none" =>
        /\ closeResult.kind = "return"
        /\ session = "closed"
\* C26 (as claimed): an attempt whose listener was handed, while the attempt
\* was waiting, a GET / with code=c and the state of the authorization URL
\* leaves the wait with c and starts the exchange of c; it does not time out.
C26_RedirectWithCodeIsExchanged ==
    (/\ AuthDone
     /\ result.kind # "CancelledError"
     /\ lastReq # Absent
     /\ Val(lastReq).during = "sleep"
     /\ Val(lastReq).query.code = "c1"
     /\ Val(lastReq).query.state = Some(state)) =>
        /\ result # TimeoutOutcome
        /\ seen # Absent
        /\ Val(seen).auth_code = "c1"
        /\ exchangeStarted
\* C27 (as claimed): once the listener has recorded a request of an attempt,
\* no later request of that attempt changes the recorded code and state.
C27_FirstRedirectIsKept ==
    [][(redirected /\ redirected') => cb' = cb]_vars

\* C28 (as claimed): the authorization URL opened carries response_type=code,
\* client_id, scope, redirect_uri and state and no other parameter, and its
\* state is the value the redirect's state is compared against.
C28_AuthorizationUrlParameters ==
    urlOpened =>
        /\ DOMAIN auth_params(state) =
              {"response_type", "client_id", "scope", "redirect_uri", "state"}
        /\ auth_params(state).response_type = "code"
        /\ \A s \in {state, state + 1} :
              StateMismatch(Some(s), state) <=> s # auth_params(state).state

\* C29 (as claimed): a token answer with a success status and no expires_in
\* makes the exchange fail with AuthenticationError and leaves the token
\* state as it was.
C29_MissingLifetimeFails ==
    (/\ AuthDone
     /\ lastResp # Absent
     /\ IsSuccess(TokenAnswer.status)
     /\ TokenAnswer.expires_in.kind = "absent") =>
        /\ result.kind = "AuthenticationError"
        /\ TokenState = tokenBefore

\* C30 (as claimed): whatever another operation reads, the token and its
\* expiry are either both those held when the running call began or both
\* those of the token answer: never the answer's token with the previous or
\* no expiry.
C30_TokenPairReplacedWhole ==
    \/ TokenState = tokenBefore
    \/ /\ lastResp # Absent
       /\ IsSuccess(TokenAnswer.status)
       /\ access_token = TokenAnswer.access_token
       /\ \E seconds \in {DefaultExpiresIn, TokenAnswer.expires_in.val} :
             token_expiry = Some(ExpiryFrom(Val(lastResp).at, seconds))
\* C31 (as claimed): an attempt whose listener captured, while the attempt
\* was waiting, a redirect without a code (absent or empty) ends with an
\* AuthenticationError that is not the timeout.
C31_RedirectWithoutCodeEndsWait ==
    (/\ AuthDone
     /\ result.kind # "CancelledError"
     /\ lastReq # Absent
     /\ Val(lastReq).during = "sleep"
     /\ ~Truthy(Val(lastReq).query.code)
     /\ ~Truthy(Val(lastReq).query.authorization_code)) =>
        /\ result.kind = "AuthenticationError"
        /\ result # TimeoutOutcome

\* C39 (as claimed): no attempt ends with the timeout error while the
\* listener holds a code, recorded during the wait with the state of the
\* attempt.
C39_NoTimeoutWithCodeRecorded ==
    (AuthDone /\ result = TimeoutOutcome) =>
        ~(/\ lastReq # Absent
          /\ Val(lastReq).during = "sleep"
          /\ Truthy(Val(cb).auth_code)
          /\ Val(cb).state = Some(state))

\* C37 (as claimed): while a POST of a dispatch is out, the bearer token in
\* its Authorization header is a token, never the absent value.
C37_PostCarriesToken ==
    callPc = "wait" => headers.Authorization[2] # None

\* C36: a dispatch whose authenticate() failed (timeout, state mismatch,
\* token endpoint error or any other exception) issued no POST, received no
\* answer of the action endpoint, and ended with the exception of
\* authenticate(); and a dispatch never goes from awaiting authenticate() to
\* a POST unless authenticate() returned.
C36_AuthFailureStopsDispatch ==
    /\ []((/\ callPc = "done"
           /\ apiTrace = <<"invalid", "authenticate">>) =>
              /\ AuthDone
              /\ result.kind # "return"
              /\ Posts = 0
              /\ apiResp = Absent
              /\ apiResult = ApiRaisedError(result.kind, ""))
    /\ [][(callPc = "auth" /\ callPc' # "auth") =>
              IF result.kind = "return"
              THEN callPc' = "wait"
              ELSE callPc' = "done" /\ apiTrace' = apiTrace]_vars

C36_Witness ==
    /\ callPc = "done"
    /\ Posts = 0
    /\ result \in {TimeoutOutcome, MismatchError}
    /\ apiResult.kind = "AuthenticationError"

\* C34: a dispatch issues at most one POST; the wait for its answer ends the
\* dispatch, with no further POST, whether an answer or a transport failure
\* came; an error response ends it with the ApiError of that response and a
\* transport failure with the exception of the transport.
C34_AtMostOnePost ==
    /\ [](Posts <= 1)
    /\ [][(callPc = "wait" /\ callPc' # "wait") =>
              /\ callPc' = "done"
              /\ apiTrace' = apiTrace
              /\ apiResult'.kind # "none"]_vars
    /\ []((callPc = "done" /\ apiResp # Absent
           /\ Val(apiResp).status \notin {200, 201, 202}) =>
              apiResult = ApiError(Val(apiResp).status, Val(apiResp).body))
    /\ []((callPc = "done" /\ Posts = 1 /\ apiResp = Absent) =>
              apiResult.kind \in TransportErrors)

C34_Witness ==
    /\ callPc = "done"
    /\ apiTrace = <<"invalid", "authenticate", "POST">>
    /\ apiResp = Some([status |-> 500, body |-> "boom"])
    /\ apiResult = ApiError(500, "boom")

\* C35 (as claimed): a command call produces parameters with exactly one
\* device entry that holds both the id and the command descriptor; the
\* descriptor has an arguments field exactly when arguments were given, and
\* then it holds the given ones.
C35_CommandParameters ==
    request # Absent =>
        /\ Val(request).params # Absent
        /\ LET devs == Val(Val(request).params).devices
               given == Val(request).arguments
           IN  /\ Len(devs) = 1
               /\ DOMAIN devs[1] = {"id", "command"}
               /\ IF given # Absent /\ Val(given) # {}
                  THEN /\ "arguments" \in DOMAIN devs[1].command
                       /\ devs[1].command.arguments = Val(given)
                  ELSE "arguments" \notin DOMAIN devs[1].command

\* C38 (as claimed): with a second authenticate() on the handler, the call
\* that holds the port still reads, at each poll, the code and the state its
\* own listener captured last.
C38_WinnerReadsOwnListener ==
    (/\ pc = "poll"
     /\ other # "none"
     /\ lastReq # Absent
     /\ Truthy(Val(lastReq).query.authorization_code)) =>
        /\ Val(cb).auth_code = Val(lastReq).query.authorization_code
        /\ Val(cb).state = Val(lastReq).query.state

\* C32 (as claimed): turn_on with a brightness outside 0..100 raises the
\* validation error and no Command at all was dispatched, the switch-on
\* command included.
C32_TurnOnValidatesFirst ==
    (/\ last.op = "turn_on"
     /\ last.value.brightness # Absent
     /\ Val(last.value.brightness) \notin 0..100) =>
        /\ last.outcome.kind \in {"ValidationError", "ValueError"}
        /\ sent = <<>>

\* C33 (as claimed): after send_command or update the device holds the
\* device entry of the response payload as its state when the response has
\* a payload, and the state it had otherwise; its record is as before.
C33_StateReplacedFromPayload ==
    last.op \in {"send_command", "update"} =>
        \E dev \in devices :
            /\ dev.data = LastRecord
            /\ IF last.response # Absent /\ Val(last.response).payload # Absent
               THEN dev.state_data =
                        Some(Val(Val(last.response).payload)[1])
               ELSE dev.state_data = last.before

\* C40 (as claimed): whatever create_device does with a record (a device, a
\* skip, a DeviceError), the caller's record is afterwards as it was given.
C40_RecordLeftUnchanged ==
    last.op = "create_device" => last.after = last.input
====
